---- MODULE Spec2Model ----
(***************************************************************************)
(* Model of the generic table-access REST layer over SQLite:               *)
(* DatabaseManager (connect / query / close), the checkDatabaseConnection  *)
(* middleware, the eight data routes, errorHandler and the process         *)
(* shutdown handlers.                                                      *)
(*                                                                         *)
(* A request is a record in the sequence reqs (arrival order).  Handlers   *)
(* are async functions: every action below runs one handler from one       *)
(* await to the next, i.e. one turn of the event loop.  Text (SQL, error   *)
(* messages) is modelled as sequences of tokens so that includes() and     *)
(* replace() are computed, not assumed.                                    *)
(***************************************************************************)
EXTENDS Integers, Sequences, FiniteSets, TLC

\* Number of requests the model lets arrive.
MaxReqs == 2

\* JavaScript values
NULL == "null"
UNDEFINED == "undefined"
\* Numbers as parseInt yields them: NaN, or an integer
NaN == [nan |-> TRUE, n |-> 0]
Num(k) == [nan |-> FALSE, n |-> k]

\* HTTP_STATUS
HTTP_STATUS ==
  [OK |-> 200, BAD_REQUEST |-> 400, NOT_FOUND |-> 404, TIMEOUT |-> 408,
   INTERNAL_SERVER_ERROR |-> 500]

\* Table names used by the requests; "ghost" does not exist at start.
Tables == {"users", "ghost"}
\* Row ids used by the requests.
Ids == {1, 2}
\* The DDL fragment of the documented add-table example:
\* id INTEGER PRIMARY KEY, email TEXT UNIQUE
DDL == "id INTEGER PRIMARY KEY, email TEXT UNIQUE"

\* A table that does not exist, and an existing table: its added columns
\* and its rows (rowid -> email; id is the INTEGER PRIMARY KEY).
ABSENT == [exists |-> FALSE, cols |-> {}, rows |-> <<>>]
Table(cols, rows) == [exists |-> TRUE, cols |-> cols, rows |-> rows]

VARIABLES
  db,        \* dbManager.db: "null", or the driver state of the handle it holds
  opens,     \* number of sqlite3.Database handles constructed
  closes,    \* number of db.close() calls made by DatabaseManager.close
  closedAt,  \* value of db when close() last called db.close()
  exited,    \* process.exit was called
  nodeEnv,   \* config.nodeEnv
  store,     \* the database file: table name -> ABSENT or [cols, rows]
  reqs,      \* the requests, in arrival order
  inflight   \* statements handed to the driver whose callback has not run

vars == <<db, opens, closes, closedAt, exited, nodeEnv, store, reqs, inflight>>

(***************************************************************************)
(* Text                                                                    *)
(***************************************************************************)
\* The tokens of the messages that contain the substring sub
TokensContaining(sub) ==
  CASE sub = "no such table" -> {"no such table:"}
    [] sub = "UNIQUE constraint failed" -> {"UNIQUE constraint failed:"}
    [] OTHER -> {sub}

\* String.prototype.includes on a tokenised message
includes(msg, sub) == \E i \in 1..Len(msg) : msg[i] \in TokensContaining(sub)

\* String.prototype.replace(from, to): the first occurrence only
replace(msg, from, to) ==
  IF \A i \in 1..Len(msg) : msg[i] # from THEN msg
  ELSE LET k == CHOOSE i \in 1..Len(msg) :
                  msg[i] = from /\ \A j \in 1..(i - 1) : msg[j] # from
       IN [i \in 1..Len(msg) |-> IF i = k THEN to ELSE msg[i]]

\* parseInt(s, 10) on the query-string values the requests use
parseInt(s) ==
  CASE s = "1" -> Num(1)
    [] s = "2" -> Num(2)
    [] OTHER -> NaN

\* (a - 1) * b in JavaScript arithmetic: NaN is contagious
PageOffset(a, b) == IF a.nan \/ b.nan THEN NaN ELSE Num((a.n - 1) * b.n)

\* JavaScript truthiness of a query/body string: undefined and "" are falsy
falsy(v) == v = UNDEFINED \/ v = ""

(***************************************************************************)
(* The SQLite backend: what a statement does to the store                  *)
(***************************************************************************)
RECURSIVE SortedIds(_)
SortedIds(S) ==
  IF S = {} THEN <<>>
  ELSE LET m == CHOOSE x \in S : \A y \in S : x <= y
       IN <<m>> \o SortedIds(S \ {m})

\* The rows of a table as SELECT * returns them (rowid order)
RowsOf(t) ==
  LET ids == SortedIds(DOMAIN t.rows)
  IN [i \in 1..Len(ids) |-> [id |-> ids[i], email |-> t.rows[ids[i]]]]

\* LIMIT n OFFSET o of SQLite: a negative limit is no limit, a negative
\* offset is 0
LimitOffset(seq, n, o) ==
  LET off  == IF o < 0 THEN 0 ELSE o
      from == off + 1
      to   == IF n < 0 THEN Len(seq)
              ELSE IF off + n > Len(seq) THEN Len(seq) ELSE off + n
  IN IF from > to THEN <<>> ELSE SubSeq(seq, from, to)

NoSuchTableMsg(table) == <<"SQLITE_ERROR:", "no such table:", table>>
SyntaxErrorMsg == <<"SQLITE_ERROR:", "syntax error">>
UniqueMsg(table, col) == <<"SQLITE_CONSTRAINT:", "UNIQUE constraint failed:", table, col>>

Columns(t) == {"id", "email"} \cup t.cols

MaxRowid(t) ==
  IF DOMAIN t.rows = {} THEN 0
  ELSE CHOOSE x \in DOMAIN t.rows : \A y \in DOMAIN t.rows : y <= x

\* a key list names column c; the value bound to it
Names(keys, c) == \E i \in 1..Len(keys) : keys[i] = c
Bound(keys, values, c) == values[CHOOSE i \in 1..Len(keys) : keys[i] = c]

Ok(st, rows) == [store |-> st, err |-> <<>>, rows |-> rows]
Fail(st, msg) == [store |-> st, err |-> msg, rows |-> <<>>]

\* Outcome of running statement s on store st: the new store, the error
\* message (<<>> when none) and the rows db.all passes to its callback.
Exec(st, s) ==
  LET t == st[s.table] IN
  CASE s.kind = "CREATE_TABLE" ->
         IF ~t.exists
         THEN Ok([st EXCEPT ![s.table] = Table({}, <<>>)], <<>>)
         ELSE Ok(st, <<>>)
    [] s.kind \in {"INSERT", "UPDATE"} /\ Len(s.keys) = 0 -> Fail(st, SyntaxErrorMsg)
    [] ~t.exists -> Fail(st, NoSuchTableMsg(s.table))
    [] s.kind = "SELECT_LIMIT10" -> Ok(st, LimitOffset(RowsOf(t), 10, 0))
    [] s.kind = "SELECT_BY_ID" ->
         Ok(st, IF s.id \in DOMAIN t.rows
                THEN <<[id |-> s.id, email |-> t.rows[s.id]]>> ELSE <<>>)
    [] s.kind = "SELECT_PAGE" ->
         IF s.limit.nan \/ s.offset.nan
         THEN Fail(st, <<"SQLITE_MISMATCH:", "datatype mismatch">>)
         ELSE Ok(st, LimitOffset(RowsOf(t), s.limit.n, s.offset.n))
    [] s.kind = "DELETE" ->
         Ok([st EXCEPT ![s.table].rows =
               [i \in (DOMAIN t.rows) \ {s.id} |-> t.rows[i]]], <<>>)
    [] s.kind = "INSERT" ->
         LET email == IF Names(s.keys, "email")
                      THEN Bound(s.keys, s.values, "email") ELSE NULL
             newid == IF Names(s.keys, "id")
                      THEN Bound(s.keys, s.values, "id") ELSE MaxRowid(t) + 1
         IN IF \E i \in 1..Len(s.keys) : s.keys[i] \notin Columns(t)
            THEN Fail(st, <<"SQLITE_ERROR:", "table", s.table, "has no column named">>)
            ELSE IF newid \in DOMAIN t.rows
            THEN Fail(st, UniqueMsg(s.table, "id"))
            ELSE IF email # NULL /\ \E i \in DOMAIN t.rows : t.rows[i] = email
            THEN Fail(st, UniqueMsg(s.table, "email"))
            ELSE Ok([st EXCEPT ![s.table].rows =
                       [i \in (DOMAIN t.rows) \cup {newid} |->
                          IF i = newid THEN email ELSE t.rows[i]]], <<>>)
    [] s.kind = "UPDATE" ->
         LET email == IF Names(s.keys, "email")
                      THEN Bound(s.keys, s.values, "email") ELSE NULL
         IN IF \E i \in 1..Len(s.keys) : s.keys[i] \notin Columns(t)
            THEN Fail(st, <<"SQLITE_ERROR:", "no such column:">>)
            ELSE IF s.id \notin DOMAIN t.rows \/ ~Names(s.keys, "email")
            THEN Ok(st, <<>>)
            ELSE IF \E i \in (DOMAIN t.rows) \ {s.id} : t.rows[i] = email
            THEN Fail(st, UniqueMsg(s.table, "email"))
            ELSE Ok([st EXCEPT ![s.table].rows[s.id] = email], <<>>)
    [] s.kind = "ADD_COLUMN" ->
         IF s.column \in Columns(t)
         THEN Fail(st, <<"SQLITE_ERROR:", "duplicate column name:">>)
         ELSE Ok([st EXCEPT ![s.table].cols = @ \cup {s.column}], <<>>)

(***************************************************************************)
(* Route handlers                                                          *)
(***************************************************************************)
\* What a handler does in one turn: answers (res.status(..).json(..), maybe
\* through next(err) and errorHandler), or awaits dbManager.query(stmt).
Respond(status, json) ==
  [respond |-> TRUE, status |-> status, json |-> json, err |-> <<>>, stmt |-> <<>>]
Query(stmt) ==
  [respond |-> FALSE, status |-> 0, json |-> <<>>, err |-> <<>>, stmt |-> stmt]

\* errorHandler(err, req, res, next)
errorHandler(msg) ==
  LET errorResponse ==
        IF nodeEnv = "development"
        THEN [status |-> "error", message |-> <<"Erro interno do servidor">>,
              detail |-> msg, stack |-> msg]
        ELSE [status |-> "error", message |-> <<"Erro interno do servidor">>]
  IN IF msg = <<"DATABASE_TIMEOUT">>
     THEN [respond |-> TRUE, status |-> HTTP_STATUS.TIMEOUT,
           json |-> [status |-> "error",
                     message |-> <<"A consulta excedeu o tempo limite de 3 minutos">>],
           err |-> msg, stmt |-> <<>>]
     ELSE [respond |-> TRUE, status |-> HTTP_STATUS.INTERNAL_SERVER_ERROR,
           json |-> errorResponse, err |-> msg, stmt |-> <<>>]

\* The module-level `this` of the arrow-function handlers: module.exports,
\* an object with no properties (this.lastID and this.changes are undefined)
ModuleThis == <<>>

\* res.json drops the properties whose value is undefined
Ack(message, key, obj, prop) ==
  IF prop \in DOMAIN obj
  THEN (key :> obj[prop]) @@ [message |-> message]
  ELSE [message |-> message]

\* req.body is the list of the key/value pairs of the JSON object;
\* const { key } = req.body
Prop(body, key) ==
  IF \E i \in 1..Len(body) : body[i][1] = key
  THEN body[CHOOSE i \in 1..Len(body) : body[i][1] = key][2]
  ELSE UNDEFINED

\* keys and values pushed by the loops over Object.entries(req.body)
BodyKeys(body) == [i \in 1..Len(body) |-> body[i][1]]
BodyValues(body) == [i \in 1..Len(body) |-> body[i][2]]

\* The statements the routes build
ListSql(r) == [kind |-> "SELECT_LIMIT10", table |-> r.table]
ByIdSql(r) == [kind |-> "SELECT_BY_ID", table |-> r.table, id |-> r.id]
PageSql(r) ==
  LET pageNumber  == parseInt(r.page)
      limitNumber == parseInt(r.limit)
      offset      == PageOffset(pageNumber, limitNumber)
  IN [kind |-> "SELECT_PAGE", table |-> r.table, limit |-> limitNumber,
      offset |-> offset]
UpdateSql(r) ==
  [kind |-> "UPDATE", table |-> r.table, keys |-> BodyKeys(r.body),
   values |-> BodyValues(r.body), id |-> r.id]
DeleteSql(r) == [kind |-> "DELETE", table |-> r.table, id |-> r.id]
InsertSql(r) ==
  [kind |-> "INSERT", table |-> r.table, keys |-> BodyKeys(r.body),
   values |-> BodyValues(r.body)]
CreateTableSql(r) ==
  [kind |-> "CREATE_TABLE", table |-> Prop(r.body, "tableName"), columns |-> Prop(r.body, "columns")]
AddColumnSql(r) ==
  [kind |-> "ADD_COLUMN", table |-> r.table, column |-> Prop(r.body, "columnName")]

\* if (!page || !limit) of the pagination route
MissingPageOrLimit(r) == falsy(r.page) \/ falsy(r.limit)

\* The handler from its entry to its first await or response
Begin(r) ==
  CASE r.op = "List" -> Query(ListSql(r))
    [] r.op = "Get" ->
         IF falsy(r.table) /\ falsy(r.id)
         THEN Respond(HTTP_STATUS.BAD_REQUEST,
                      [message |-> <<"Bad request. Missing ID parameter">>])
         ELSE Query(ByIdSql(r))
    [] r.op = "Paginate" ->
         IF MissingPageOrLimit(r)
         THEN Respond(HTTP_STATUS.BAD_REQUEST,
                      [message |-> <<"Bad request. Missing page or limit parameter">>])
         ELSE Query(PageSql(r))
    [] r.op = "Update" -> Query(UpdateSql(r))
    [] r.op = "Delete" -> Query(ByIdSql(r))
    [] r.op = "Create" -> Query(InsertSql(r))
    [] r.op = "AddTable" ->
         IF falsy(Prop(r.body, "tableName")) \/ falsy(Prop(r.body, "columns"))
         THEN Respond(HTTP_STATUS.BAD_REQUEST,
                      [error |-> <<"Nome da tabela e colunas sao obrigatorios.">>])
         ELSE Query(CreateTableSql(r))
    [] r.op = "AddColumn" -> Query(AddColumnSql(r))

\* row.length === 0 of GET /api/read/:table/:id
GetNotFound(row) == Len(row) = 0

\* A delete route that never takes the not-found branch
DeleteNotFoundNever(result) == FALSE

\* result.length === 0 of DELETE /api/delete/:table/:id
DeleteNotFound(result) == Len(result) = 0

\* The handler resumed by the resolution of its n-th query with rows
Resume(r, n, rows) ==
  CASE r.op = "List" ->
         Respond(HTTP_STATUS.OK, [status |-> "success", data |-> rows])
    [] r.op = "Get" ->
         IF GetNotFound(rows)
         THEN Respond(HTTP_STATUS.NOT_FOUND, [message |-> <<"User not found">>])
         ELSE Respond(HTTP_STATUS.OK, rows[1])
    [] r.op = "Paginate" ->
         IF Len(rows) > 0
         THEN Respond(HTTP_STATUS.OK, rows)
         ELSE Respond(HTTP_STATUS.OK, [message |-> <<"A tabela", r.table, "esta vazia.">>])
    [] r.op = "Update" ->
         Respond(HTTP_STATUS.OK,
                 Ack(<<"Cadastro atualizado com sucesso!">>, "changes", ModuleThis, "changes"))
    [] r.op = "Delete" ->
         IF n = 1
         THEN IF DeleteNotFound(rows)
              THEN Respond(HTTP_STATUS.NOT_FOUND,
                           [message |-> <<"O id", "nao encontrado na tabela", r.table>>])
              ELSE Query(DeleteSql(r))
         ELSE Respond(HTTP_STATUS.OK, [message |-> <<"ID", "excluido com sucesso!">>])
    [] r.op = "Create" ->
         Respond(HTTP_STATUS.OK,
                 Ack(<<"Cadastro criado com sucesso!">>, "id", ModuleThis, "lastID"))
    [] r.op = "AddTable" ->
         Respond(HTTP_STATUS.OK, [message |-> <<"Tabela", Prop(r.body, "tableName"), "criada com sucesso!">>])
    [] r.op = "AddColumn" ->
         Respond(HTTP_STATUS.OK, [message |-> <<"Coluna", Prop(r.body, "columnName"), "criada com sucesso!">>])

\* catch blocks of the routes that rewrite 'no such table'
NoSuchTableCatch(msg) ==
  IF includes(msg, "no such table")
  THEN replace(msg, "no such table:", "Nao existe a tabela:")
  ELSE msg

\* A create route that forwards every backend message as it is
CreateCatchRaw(msg) == msg

\* catch block of POST /api/create/:table
CreateCatch(msg) ==
  IF includes(msg, "UNIQUE constraint failed")
  THEN <<"O email ja existe">>
  ELSE msg

\* catch block of POST /api/add-table
AddTableCatch(msg) == <<"Erro ao criar a tabela:">> \o msg

\* The handler resumed by the rejection of its query with message msg:
\* the Error it passes to next(), answered by errorHandler
Catch(r, msg) ==
  CASE r.op = "Create" -> errorHandler(CreateCatch(msg))
    [] r.op = "AddTable" -> errorHandler(AddTableCatch(msg))
    [] OTHER -> errorHandler(NoSuchTableCatch(msg))

(***************************************************************************)
(* Requests                                                                *)
(***************************************************************************)
In(op, table, id, body, page, limit) ==
  [op |-> op, table |-> table, id |-> id, body |-> body, page |-> page,
   limit |-> limit]

\* The requests that may arrive
Inputs ==
  {In("List", t, 0, <<>>, UNDEFINED, UNDEFINED) : t \in Tables}
  \cup {In("Get", "users", i, <<>>, UNDEFINED, UNDEFINED) : i \in Ids}
  \cup {In("Get", "ghost", 1, <<>>, UNDEFINED, UNDEFINED)}
  \cup {In("Paginate", "users", 0, <<>>, pl[1], pl[2]) :
          pl \in {<<UNDEFINED, "1">>, <<"1", UNDEFINED>>, <<"abc", "1">>,
                  <<"1", "1">>, <<"2", "1">>}}
  \cup {In("Paginate", "ghost", 0, <<>>, "1", "1")}
  \cup {In("Create", "users", 0, b, UNDEFINED, UNDEFINED) :
          b \in {<<>>, <<<<"email", "a">>>>, <<<<"email", "b">>>>, <<<<"bogus", "x">>>>}}
  \cup {In("Create", "ghost", 0, <<<<"email", "a">>>>, UNDEFINED, UNDEFINED)}
  \cup {In("Update", "users", i, b, UNDEFINED, UNDEFINED) :
          i \in Ids, b \in {<<>>, <<<<"email", "b">>>>}}
  \cup {In("Update", "ghost", 1, b, UNDEFINED, UNDEFINED) :
          b \in {<<>>, <<<<"email", "b">>>>}}
  \cup {In("Delete", "users", i, <<>>, UNDEFINED, UNDEFINED) : i \in Ids}
  \cup {In("Delete", "ghost", 1, <<>>, UNDEFINED, UNDEFINED)}
  \cup {In("AddTable", "", 0, b, UNDEFINED, UNDEFINED) :
          b \in {<<<<"columns", DDL>>>>,
                 <<<<"tableName", "ghost">>>>,
                 <<<<"tableName", "ghost">>, <<"columns", DDL>>>>}}
  \cup {In("AddColumn", t, 0, <<<<"columnName", "age">>, <<"columnType", "INTEGER">>>>,
           UNDEFINED, UNDEFINED) : t \in Tables}

\* A request as it arrives.  pc: "connecting" (awaiting dbManager.connect()),
\* "await" (awaiting its cur-th dbManager.query()), "done" (answered).
\* History kept for the properties: err, the message of the Error given to
\* errorHandler; berr, the error of its statement last run by the backend;
\* gen, the rowid its INSERT generated; removed, the number of rows its
\* DELETE removed; timedOut; hconn, the value of db when
\* its last statement was handed to db.all; alone, no other request was in
\* progress during it; pre and post, the store at arrival and at the answer.
NewReq(in, quiet) ==
  [op |-> in.op, table |-> in.table, id |-> in.id, body |-> in.body,
   page |-> in.page, limit |-> in.limit,
   pc |-> "connecting", cur |-> 0, status |-> 0, json |-> <<>>,
   err |-> <<>>, berr |-> <<>>, gen |-> 0, removed |-> 0, timedOut |-> FALSE,
   hconn |-> "none", alone |-> quiet, pre |-> store, post |-> store]

\* The request after a turn of its handler with outcome out, on handle state
\* dbNow and store st
Apply(r, out, dbNow, st) ==
  IF out.respond
  THEN [r EXCEPT !.pc = "done", !.status = out.status, !.json = out.json,
                 !.err = out.err, !.post = st]
  ELSE [r EXCEPT !.pc = "await", !.cur = @ + 1, !.hconn = dbNow]

\* DatabaseManager.query: db.all(sql, params, cb) hands the statement over
Handed(i, r, out) ==
  IF out.respond THEN {} ELSE {[r |-> i, n |-> r.cur + 1, stmt |-> out.stmt]}

\* A middleware that connects until an open has succeeded
NeedsConnectUntilOpen == db # "open"

\* new Error('Falha na conexao com o banco de dados') of the middleware
ConnFailMsg == <<"Falha na conexao com o banco de dados">>

\* if (!dbManager.db) of checkDatabaseConnection
NeedsConnect == db = "null"

(***************************************************************************)
(* Actions                                                                 *)
(***************************************************************************)
Init ==
  /\ db = "null"
  /\ opens = 0
  /\ closes = 0
  /\ closedAt = "none"
  /\ exited = FALSE
  /\ nodeEnv \in {"development", "production"}
  /\ store = [t \in Tables |->
                IF t = "users" THEN Table({}, (1 :> "a")) ELSE ABSENT]
  /\ reqs = <<>>
  /\ inflight = {}

\* A request reaches checkDatabaseConnection: DatabaseManager.connect
\* constructs the handle when there is none, else the route handler runs
Arrive(in) ==
  /\ ~exited
  /\ Len(reqs) < MaxReqs
  /\ LET i == Len(reqs) + 1
         quiet == inflight = {} /\ \A j \in 1..Len(reqs) : reqs[j].pc = "done"
         r == NewReq(in, quiet)
         others == [j \in 1..Len(reqs) |->
                      IF reqs[j].pc # "done"
                      THEN [reqs[j] EXCEPT !.alone = FALSE] ELSE reqs[j]]
     IN IF NeedsConnect
        THEN /\ db' = "opening"
             /\ opens' = opens + 1
             /\ reqs' = Append(others, r)
             /\ inflight' = inflight
        ELSE LET out == Begin(r)
             IN /\ reqs' = Append(others, Apply(r, out, db, store))
                /\ inflight' = inflight \cup Handed(i, r, out)
                /\ UNCHANGED <<db, opens>>
  /\ UNCHANGED <<closes, closedAt, exited, nodeEnv, store>>

\* The open callback of sqlite3.Database without error: connect() resolves,
\* next() runs the route handler
ConnectResolved(i) ==
  /\ ~exited
  /\ reqs[i].pc = "connecting"
  /\ db' = "open"
  /\ LET r == reqs[i]
         out == Begin(r)
     IN /\ reqs' = [reqs EXCEPT ![i] = Apply(r, out, "open", store)]
        /\ inflight' = inflight \cup Handed(i, r, out)
  /\ UNCHANGED <<opens, closes, closedAt, exited, nodeEnv, store>>

\* The open callback with an error: connect() rejects, the middleware calls
\* next(new Error('Falha na conexao com o banco de dados'))
ConnectRejected(i) ==
  /\ ~exited
  /\ reqs[i].pc = "connecting"
  /\ db' = "failed"
  /\ LET r == reqs[i]
         out == errorHandler(ConnFailMsg)
     IN reqs' = [reqs EXCEPT ![i] = Apply(r, out, "failed", store)]
  /\ UNCHANGED <<opens, closes, closedAt, exited, nodeEnv, store, inflight>>

\* A promise that every callback settles anew
PendingAlways(r, s) == TRUE

\* The promise of the query that handed statement s over is still pending:
\* request r awaits it and the timer has not rejected it (resolve and
\* reject of a settled promise do nothing)
Pending(r, s) == r.pc = "await" /\ r.cur = s.n

\* The callback of db.all for statement s with backend outcome e:
\* clearTimeout, then reject(err) or resolve(rows); a promise the timer has
\* already rejected ignores it
Settle(s, e) ==
  LET r == reqs[s.r]
      pending == Pending(r, s)
      old == DOMAIN store[s.stmt.table].rows
      new == DOMAIN e.store[s.stmt.table].rows
      r1 == [r EXCEPT !.berr = e.err,
                      !.gen = IF s.stmt.kind = "INSERT" /\ new # old
                              THEN CHOOSE x \in new \ old : TRUE ELSE @,
                      !.removed = IF s.stmt.kind = "DELETE"
                                  THEN @ + Cardinality(old \ new) ELSE @]
      out == IF e.err # <<>> THEN Catch(r1, e.err) ELSE Resume(r1, s.n, e.rows)
  IN /\ store' = e.store
     /\ reqs' = [reqs EXCEPT ![s.r] =
                   IF pending THEN Apply(r1, out, db, e.store) ELSE r1]
     /\ inflight' = (inflight \ {s})
                      \cup (IF pending THEN Handed(s.r, r1, out) ELSE {})

\* The driver runs a statement on the open handle and calls back
Complete(s) ==
  /\ ~exited
  /\ db = "open"
  /\ Settle(s, Exec(store, s.stmt))
  /\ UNCHANGED <<db, opens, closes, closedAt, exited, nodeEnv>>

\* On a handle whose open failed the driver may call back with an error
\* (or never: then only the timer fires)
DriverRejects(s) ==
  /\ ~exited
  /\ db = "failed"
  /\ Settle(s, Fail(store, <<"SQLITE_MISUSE:", "Database is closed">>))
  /\ UNCHANGED <<db, opens, closes, closedAt, exited, nodeEnv>>

\* The setTimeout of DatabaseManager.query fires before the db.all callback:
\* reject(new Error('DATABASE_TIMEOUT')); the statement stays with the driver
Timeout(i) ==
  /\ ~exited
  /\ reqs[i].pc = "await"
  /\ LET r == [reqs[i] EXCEPT !.timedOut = TRUE]
         out == Catch(r, <<"DATABASE_TIMEOUT">>)
     IN reqs' = [reqs EXCEPT ![i] = Apply(r, out, db, store)]
  /\ UNCHANGED <<db, opens, closes, closedAt, exited, nodeEnv, store, inflight>>

\* DatabaseManager.close
close ==
  IF db # "null"
  THEN /\ closes' = closes + 1
       /\ closedAt' = db
       /\ db' = "closed"
  ELSE UNCHANGED <<db, closes, closedAt>>

\* SIGTERM, SIGINT, uncaughtException, unhandledRejection:
\* dbManager.close(); process.exit(..)
Shutdown ==
  /\ ~exited
  /\ close
  /\ exited' = TRUE
  /\ UNCHANGED <<opens, nodeEnv, store, reqs, inflight>>

\* The requests of the row routes on the existing table
CoreInputs ==
  {in \in Inputs : in.table = "users" /\ in.op \in {"Get", "Delete"}}
  \cup {in \in Inputs : in.table = "users" /\ in.op = "Create" /\ Len(in.body) > 0
                         /\ in.body[1][1] = "email"}

Next ==
  \/ \E in \in Inputs : Arrive(in)
  \/ \E i \in 1..Len(reqs) : ConnectResolved(i)
  \/ \E i \in 1..Len(reqs) : ConnectRejected(i)
  \/ \E s \in inflight : Complete(s)
  \/ \E s \in inflight : DriverRejects(s)
  \/ \E i \in 1..Len(reqs) : Timeout(i)
  \/ Shutdown

Spec == Init /\ [][Next]_vars

\* The same program, its clients restricted to the row routes of "users"
NextCore ==
  \/ \E in \in CoreInputs : Arrive(in)
  \/ \E i \in 1..Len(reqs) : ConnectResolved(i)
  \/ \E i \in 1..Len(reqs) : ConnectRejected(i)
  \/ \E s \in inflight : Complete(s)
  \/ \E s \in inflight : DriverRejects(s)
  \/ \E i \in 1..Len(reqs) : Timeout(i)
  \/ Shutdown

SpecCore == Init /\ [][NextCore]_vars

\* Request i has reached the server
Arrived(i) == i <= Len(reqs)

\* The timers of DatabaseManager.query fire, and the driver calls the open
\* callback of every handle it was asked to open
Fairness ==
  /\ \A i \in 1..MaxReqs : WF_vars(Arrived(i) /\ Timeout(i))
  /\ \A i \in 1..MaxReqs :
       WF_vars(Arrived(i) /\ (ConnectResolved(i) \/ ConnectRejected(i)))

\* Requests answered from rows, by NotFound, by a backend error and after
\* two statements
LiveInputs ==
  {in \in CoreInputs :
     \/ in.op = "Delete" /\ in.id = 1
     \/ in.op = "Get" /\ in.id = 2
     \/ in.op = "Create" /\ in.body[1][2] = "a"}

NextLive ==
  \/ \E in \in LiveInputs : Arrive(in)
  \/ \E i \in 1..Len(reqs) : ConnectResolved(i)
  \/ \E i \in 1..Len(reqs) : ConnectRejected(i)
  \/ \E s \in inflight : Complete(s)
  \/ \E s \in inflight : DriverRejects(s)
  \/ \E i \in 1..Len(reqs) : Timeout(i)
  \/ Shutdown

SpecLive == Init /\ [][NextLive]_vars /\ Fairness

(***************************************************************************)
(* Properties                                                              *)
(***************************************************************************)
\* The route handler of request r has run (the middleware called next()),
\* and whatever it handed to db.all went to an established connection
Routed(r) ==
  /\ r.pc # "connecting"
  /\ r.err # ConnFailMsg
  /\ r.cur > 0 => r.hconn = "open"

\* Request r was answered after its statements ran on an established
\* connection, none of them timing out
Served(r) == r.pc = "done" /\ ~r.timedOut /\ r.cur > 0 /\ r.hconn = "open"

\* C1: a statement is handed to the database (db.all runs) only while the
\* connection has been successfully established.
C1_QueryOnlyWhenEstablished ==
  \A i \in 1..Len(reqs) : reqs[i].cur > 0 => reqs[i].hconn = "open"

\* C2: for every operation, a request whose timeout clock fired before the
\* backend's callback is answered QueryTimeout (408), and stays so whatever
\* the backend does later.
C2_TimeoutYields408 ==
  \A i \in 1..Len(reqs) :
    (reqs[i].timedOut /\ reqs[i].hconn = "open") =>
      reqs[i].pc = "done" /\ reqs[i].status = HTTP_STATUS.TIMEOUT

TableOps == {"List", "Get", "Paginate", "Create", "Update", "Delete", "AddColumn"}

\* C3: a table-addressed request whose statement the backend refuses with
\* 'no such table' ends with the rewritten NoSuchTable error, never with
\* the backend's raw message.
C3_NoSuchTableRewritten ==
  \A i \in 1..Len(reqs) :
    LET r == reqs[i] IN
    (r.op \in TableOps /\ Served(r) /\ includes(r.berr, "no such table")) =>
       /\ includes(r.err, "Nao existe a tabela:")
       /\ ~includes(r.err, "no such table")

\* C4: a successful Create row answers with the generated row id, and a Get
\* by id with that id, nothing in between, yields the submitted fields.
C4_CreateAckCarriesId ==
  \A i \in 1..Len(reqs) :
    LET r == reqs[i] IN
    (r.op = "Create" /\ Len(r.body) > 0 /\ r.pc = "done"
       /\ r.status = HTTP_STATUS.OK) =>
      /\ "id" \in DOMAIN r.json
      /\ r.json.id = r.gen
      /\ \A j \in 1..Len(reqs) :
           LET g == reqs[j] IN
           (j = i + 1 /\ g.op = "Get" /\ g.table = r.table /\ g.id = r.json.id
              /\ g.alone /\ Served(g)) =>
             /\ g.status = HTTP_STATUS.OK
             /\ \A k \in 1..Len(r.body) : g.json[r.body[k][1]] = r.body[k][2]

\* the store st with row id of table removed
WithoutRow(st, table, id) ==
  [st EXCEPT ![table].rows = [x \in (DOMAIN st[table].rows) \ {id} |-> st[table].rows[x]]]

\* C5: with no other request interleaved, Delete row on an existing id
\* removes exactly that row and a following Get by id yields NotFound;
\* Delete row on an id that does not exist yields NotFound, issues no DELETE
\* statement and leaves the table unchanged.  (Requests served on an
\* established connection, their statements' callbacks running before the
\* timers; the timeout and connection failures are the subject of C1, C2.)
C5_DeleteFrame ==
  \A i \in 1..Len(reqs) :
    LET r == reqs[i] IN
    (r.op = "Delete" /\ r.alone /\ Served(r) /\ r.pre[r.table].exists) =>
      IF r.id \in DOMAIN r.pre[r.table].rows
      THEN /\ r.status = HTTP_STATUS.OK
           /\ r.cur = 2
           /\ r.post = WithoutRow(r.pre, r.table, r.id)
           /\ Cardinality(DOMAIN r.post[r.table].rows)
                = Cardinality(DOMAIN r.pre[r.table].rows) - 1
           /\ \A j \in 1..Len(reqs) :
                LET g == reqs[j] IN
                (j = i + 1 /\ g.op = "Get" /\ g.table = r.table /\ g.id = r.id
                   /\ g.alone /\ Served(g)) =>
                  g.status = HTTP_STATUS.NOT_FOUND
      ELSE /\ r.status = HTTP_STATUS.NOT_FOUND
           /\ r.cur = 1
           /\ r.post = r.pre

\* C5 happens: a Delete of an existing row answered 200, then a Get by id
\* of the same row answered 404, nothing else interleaved.
C5_Witness ==
  /\ Len(reqs) = 2
  /\ reqs[1].op = "Delete" /\ reqs[1].alone /\ Served(reqs[1])
  /\ reqs[1].id \in DOMAIN reqs[1].pre["users"].rows
  /\ reqs[1].status = HTTP_STATUS.OK
  /\ reqs[2].op = "Get" /\ reqs[2].table = reqs[1].table /\ reqs[2].id = reqs[1].id
  /\ reqs[2].alone /\ Served(reqs[2])
  /\ reqs[2].status = HTTP_STATUS.NOT_FOUND

\* C6: a Create row refused by a uniqueness constraint ends with the
\* conflict error, never with a success acknowledgment, and leaves the
\* store as it was.  (When its timer fired before the backend's refusal the
\* answer is the timeout error, still no acknowledgment.)
C6_UniqueConflict ==
  \A i \in 1..Len(reqs) :
    LET r == reqs[i] IN
    (r.op = "Create" /\ r.pc = "done" /\ includes(r.berr, "UNIQUE constraint failed")) =>
      /\ r.status # HTTP_STATUS.OK
      /\ ~r.timedOut =>
           /\ r.status = HTTP_STATUS.INTERNAL_SERVER_ERROR
           /\ r.err = <<"O email ja existe">>
           /\ r.alone => r.post = r.pre

\* C6 happens: a Create of an e-mail already stored was answered.
C6_Witness ==
  \E i \in 1..Len(reqs) :
    /\ reqs[i].op = "Create" /\ reqs[i].alone /\ Served(reqs[i])
    /\ includes(reqs[i].berr, "UNIQUE constraint failed")
    /\ reqs[i].status = HTTP_STATUS.INTERNAL_SERVER_ERROR
    /\ reqs[i].post = reqs[i].pre

\* C7: a Paginate request whose page or limit is missing or not a number is
\* answered BadRequest (400) and hands no statement to the database.
C7_PaginateBadRequest ==
  \A i \in 1..Len(reqs) :
    LET r == reqs[i] IN
    (r.op = "Paginate" /\ Routed(r)
       /\ (falsy(r.page) \/ falsy(r.limit)
             \/ parseInt(r.page).nan \/ parseInt(r.limit).nan)) =>
      r.status = HTTP_STATUS.BAD_REQUEST /\ r.cur = 0

\* C8: an Update row request with an empty body is rejected with BadRequest
\* and no UPDATE statement is handed to the database.
C8_EmptyUpdateRejected ==
  \A i \in 1..Len(reqs) :
    LET r == reqs[i] IN
    (r.op = "Update" /\ Len(r.body) = 0 /\ Routed(r)) =>
      r.status = HTTP_STATUS.BAD_REQUEST /\ r.cur = 0

\* C9: close() does nothing unless a connection was opened, and releases
\* the handle at most once.
C9_CloseSafe ==
  /\ closes <= 1
  /\ closes > 0 => closedAt \in {"opening", "open"}

\* C10: over any interleaving of requests the Connection Manager constructs
\* at most one database handle.
C10_SingleHandle == opens <= 1

\* C10 happens: a second request arrived while the first open was in flight
\* and its statement went to the handle being opened.
C10_Witness ==
  /\ Len(reqs) >= 2
  /\ reqs[1].pc = "connecting"
  /\ reqs[2].hconn = "opening"
  /\ opens = 1

Answered(i) == i <= Len(reqs) /\ reqs[i].pc = "done"

\* An answer, once sent, is never sent again nor changed
AnsweredOnce ==
  \A i \in 1..Len(reqs) :
    reqs[i].pc = "done" =>
      /\ reqs'[i].pc = "done"
      /\ reqs'[i].status = reqs[i].status
      /\ reqs'[i].json = reqs[i].json

AnswerStatuses ==
  \A i \in 1..Len(reqs) :
    /\ reqs[i].pc = "done" => reqs[i].status \in {200, 400, 404, 408, 500}
    /\ reqs[i].pc # "done" => reqs[i].status = 0

\* C11 as stated: under fairness of the timers and of the open callback,
\* every request is eventually answered, once, with a status among
\* 200/400/404/408/500, and a late backend callback never answers again.
C11_EveryRequestAnswered ==
  /\ \A i \in 1..MaxReqs : [](Arrived(i) => <>Answered(i))
  /\ [][AnsweredOnce]_vars
  /\ []AnswerStatuses

\* C11 as the program has it: the same, for as long as the process is not
\* ended by a signal or an uncaught failure (process.exit answers nothing).
C11_AnsweredUnlessExited ==
  /\ \A i \in 1..MaxReqs : [](Arrived(i) => <>(Answered(i) \/ exited))
  /\ [][AnsweredOnce]_vars
  /\ []AnswerStatuses

\* C11 happens: a request was answered 408 by its timer and the callback of
\* its statement ran afterwards, the answer staying 408.
C11_Witness ==
  \E i \in 1..Len(reqs) :
    /\ reqs[i].timedOut
    /\ reqs[i].status = HTTP_STATUS.TIMEOUT
    /\ reqs[i].cur = 1
    /\ \A s \in inflight : s.r # i
    /\ ~exited

\* Requests i and j are two Delete row requests for the same row
SameDelete(i, j) ==
  /\ i # j
  /\ reqs[i].op = "Delete" /\ reqs[j].op = "Delete"
  /\ reqs[i].table = reqs[j].table /\ reqs[i].id = reqs[j].id

\* No request inserts into table
NoInsert(table) ==
  \A k \in 1..Len(reqs) : ~(reqs[k].op = "Create" /\ reqs[k].table = table)

\* C12: Delete row is not atomic between its existence check and its DELETE
\* statement.  Among the Delete row requests for one row (no request
\* inserting meanwhile) the row is removed at most once, whoever is
\* acknowledged: every one answered 200 passed the existence check and ran
\* its DELETE, the row is gone, and one DELETE of them removed it.
C12_DeleteRace ==
  \A i \in 1..Len(reqs) :
    LET r == reqs[i] IN
    (r.op = "Delete" /\ NoInsert(r.table)) =>
      /\ \A j \in 1..Len(reqs) :
           SameDelete(i, j) => r.removed + reqs[j].removed <= 1
      /\ (Served(r) /\ r.status = HTTP_STATUS.OK) =>
           /\ r.cur = 2
           /\ r.id \notin DOMAIN store[r.table].rows
           /\ \/ r.removed = 1
              \/ \E k \in 1..Len(reqs) : SameDelete(i, k) /\ reqs[k].removed = 1

\* C12 happens: two concurrent Delete row requests for the same existing row
\* both passed the existence check, both were answered 200, and only one
\* DELETE removed the row.
C12_Witness ==
  \E i, j \in 1..Len(reqs) :
    /\ SameDelete(i, j)
    /\ reqs[i].id \in DOMAIN reqs[i].pre[reqs[i].table].rows
    /\ reqs[j].id \in DOMAIN reqs[j].pre[reqs[j].table].rows
    /\ ~reqs[i].alone /\ ~reqs[j].alone
    /\ Served(reqs[i]) /\ reqs[i].status = HTTP_STATUS.OK /\ reqs[i].cur = 2
    /\ Served(reqs[j]) /\ reqs[j].status = HTTP_STATUS.OK /\ reqs[j].cur = 2
    /\ reqs[i].removed = 1 /\ reqs[j].removed = 0

====
